---- MODULE Spec2Model ----
(***************************************************************************)
(* pycodemap: structural extraction of classes, functions, signatures,     *)
(* decorators and class attributes from parsed Python files, rendering of  *)
(* the per-file report text, and the driver loop of run().                 *)
(*                                                                         *)
(* Text is modelled by TLA+ strings (concatenation \o, Len, SubSeq), the   *)
(* parse tree by records carrying the field names of Python's ast nodes,   *)
(* Python's None for a node by the record None, and an optional text       *)
(* (None or a str) by a sequence of zero or one strings.                   *)
(***************************************************************************)
EXTENDS Integers, Sequences, FiniteSets, TLC

VARIABLES
    pc,           \* position of run(), or of the function-level harness
    args,         \* the parsed command line (argparse namespace)
    walk,         \* the directory tree os.walk is started on
    todo,         \* filepaths (with their content) os.walk still has to yield
    cur,          \* the file the loop body is working on
    classes,      \* local of run(): classes of the current file
    functions,    \* local of run(): functions of the current file
    result,       \* local of run(): rendered text of the current file
    output_file,  \* "none" | "open" | "closed"
    written,      \* the texts passed to output_file.write, in order
    stdout,       \* the texts passed to print, in order
    analyzed,     \* history: filepaths analyze_file returned for, in order
    node,         \* input of the function-level specifications
    out           \* output of the function-level specifications

vars == <<pc, args, walk, todo, cur, classes, functions, result,
          output_file, written, stdout, analyzed, node, out>>

driverVars == <<args, walk, todo, cur, classes, functions, result,
                output_file, written, stdout, analyzed>>

-----------------------------------------------------------------------------
(* Bounds *)

MaxArgs == 2          \* positional parameters of a declaration
MaxDecorators == 2    \* decorators on a declaration
MaxBody == 2          \* statements in a class body
MaxFiles == 3         \* files in one directory
MaxTop == 2           \* top-level statements of a rendered module

-----------------------------------------------------------------------------
(* Python values *)

None == [kind |-> "None"]

NoText == << >>
Some(s) == << s >>

\* truthiness of an optional text: None and "" are false
Truthy(t) == t # NoText /\ t[1] # ""

Range(s) == { s[i] : i \in 1..Len(s) }

SeqsUpTo(S, n) == UNION { [1..k -> S] : k \in 0..n }

RECURSIVE Join(_, _)
\* sep.join(parts)
Join(parts, sep) ==
    IF Len(parts) = 0 THEN ""
    ELSE IF Len(parts) = 1 THEN parts[1]
    ELSE parts[1] \o sep \o Join(Tail(parts), sep)

IsWhitespace(c) == c \in {" ", "\n", "\t", "\r", "\f"}

\* truthiness of s.strip()
StripNonEmpty(s) == \E i \in 1..Len(s) : ~IsWhitespace(SubSeq(s, i, i))

EndsWith(s, suffix) ==
    /\ Len(s) >= Len(suffix)
    /\ SubSeq(s, Len(s) - Len(suffix) + 1, Len(s)) = suffix

StartsWith(s, prefix) ==
    /\ Len(s) >= Len(prefix)
    /\ SubSeq(s, 1, Len(prefix)) = prefix

Contains(s, t) ==
    \E i \in 1..(Len(s) - Len(t) + 1) : SubSeq(s, i, i + Len(t) - 1) = t

RECURSIVE Split(_, _)
\* s.split(sep) for a separator of one character
Split(s, sep) ==
    IF \E i \in 1..Len(s) : SubSeq(s, i, i) = sep
    THEN LET i == CHOOSE k \in 1..Len(s) :
                    /\ SubSeq(s, k, k) = sep
                    /\ \A j \in 1..(k - 1) : SubSeq(s, j, j) # sep
         IN  << SubSeq(s, 1, i - 1) >> \o Split(SubSeq(s, i + 1, Len(s)), sep)
    ELSE << s >>

-----------------------------------------------------------------------------
(* Expressions and ast.unparse *)

Name(id) == [kind |-> "Name", id |-> id]
Constant(v) == [kind |-> "Constant", value |-> v]
Attribute(value, attr) == [kind |-> "Attribute", value |-> value, attr |-> attr]
Subscript(value, slice) == [kind |-> "Subscript", value |-> value, slice |-> slice]
TupleExpr(elts) == [kind |-> "Tuple", elts |-> elts]
Keyword(k, value) == [arg |-> k, value |-> value]
Call(func, cargs, keywords) ==
    [kind |-> "Call", func |-> func, args |-> cargs, keywords |-> keywords]

RECURSIVE Unparse(_)
\* ast.unparse(expr)
Unparse(e) ==
    CASE e.kind = "Name" -> e.id
      [] e.kind = "Constant" -> ToString(e.value)
      [] e.kind = "Attribute" -> Unparse(e.value) \o "." \o e.attr
      [] e.kind = "Subscript" ->
            Unparse(e.value) \o "[" \o Unparse(e.slice) \o "]"
      [] e.kind = "Tuple" ->
            "(" \o Join([i \in 1..Len(e.elts) |-> Unparse(e.elts[i])], ", ") \o ")"
      [] e.kind = "Call" ->
            Unparse(e.func) \o "("
              \o Join([i \in 1..Len(e.args) |-> Unparse(e.args[i])]
                        \o [i \in 1..Len(e.keywords) |->
                              e.keywords[i].arg \o "=" \o Unparse(e.keywords[i].value)],
                      ", ")
              \o ")"

-----------------------------------------------------------------------------
(* Statements *)

Arg(name, annotation) == [arg |-> name, annotation |-> annotation]

Arguments(posonly, positional, vararg, kwonly, kwarg) ==
    [posonlyargs |-> posonly, args |-> positional, vararg |-> vararg,
     kwonlyargs |-> kwonly, kwarg |-> kwarg]

FunctionDef(name, arguments, returns, decorator_list) ==
    [kind |-> "FunctionDef", name |-> name, args |-> arguments,
     returns |-> returns, decorator_list |-> decorator_list]

ClassDef(name, decorator_list, body) ==
    [kind |-> "ClassDef", name |-> name, decorator_list |-> decorator_list,
     body |-> body]

Assign(targets, value) == [kind |-> "Assign", targets |-> targets, value |-> value]

AnnAssign(target, annotation) ==
    [kind |-> "AnnAssign", target |-> target, annotation |-> annotation]

IfStmt(body) == [kind |-> "If", body |-> body]

Import(name) == [kind |-> "Import", name |-> name]

Module(body) == [kind |-> "Module", body |-> body]

-----------------------------------------------------------------------------
(* get_arguments_and_hints *)

get_arguments_and_hints(n) ==
    LET positional ==
            [i \in 1..Len(n.args.args) |->
                << n.args.args[i].arg,
                   IF n.args.args[i].annotation # None
                   THEN Some(Unparse(n.args.args[i].annotation))
                   ELSE NoText >>]
        vararg ==
            IF n.args.vararg # None
            THEN << << "*" \o n.args.vararg.arg, NoText >> >>
            ELSE << >>
        kwarg ==
            IF n.args.kwarg # None
            THEN << << "**" \o n.args.kwarg.arg, NoText >> >>
            ELSE << >>
        return_type ==
            IF n.returns # None THEN Some(Unparse(n.returns)) ELSE NoText
    IN  << positional \o vararg \o kwarg, return_type >>

(* get_decorators *)

get_decorators(n) ==
    [i \in 1..Len(n.decorator_list) |->
        LET decorator == n.decorator_list[i] IN
        IF decorator.kind = "Name" THEN decorator.id
        ELSE IF decorator.kind = "Call" THEN
            LET func_name == Unparse(decorator.func)
                cargs == Join([j \in 1..Len(decorator.args) |->
                                  Unparse(decorator.args[j])], ", ")
            IN  IF cargs # "" THEN func_name \o "(" \o cargs \o ")" ELSE func_name
        ELSE Unparse(decorator)]

-----------------------------------------------------------------------------
(* analyze_file, from the parsed tree on *)

\* variant: a simple assignment is named after its last target
attribute_of_last_target(child) ==
    LET name ==
            IF child.kind = "AnnAssign"
            THEN (IF child.target.kind = "Name" THEN Some(child.target.id) ELSE NoText)
            ELSE (IF child.targets[Len(child.targets)].kind = "Name"
                  THEN Some(child.targets[Len(child.targets)].id) ELSE NoText)
        annotation ==
            IF child.kind = "AnnAssign"
            THEN (IF child.annotation # None
                  THEN Some(Unparse(child.annotation)) ELSE NoText)
            ELSE NoText
    IN  IF Truthy(name)
        THEN << [name |-> name[1], type |-> annotation] >>
        ELSE << >>

attribute_of(child) ==
    LET name ==
            IF child.kind = "AnnAssign"
            THEN (IF child.target.kind = "Name" THEN Some(child.target.id) ELSE NoText)
            ELSE (IF child.targets[1].kind = "Name"
                  THEN Some(child.targets[1].id) ELSE NoText)
        annotation ==
            IF child.kind = "AnnAssign"
            THEN (IF child.annotation # None
                  THEN Some(Unparse(child.annotation)) ELSE NoText)
            ELSE NoText
    IN  IF Truthy(name)
        THEN << [name |-> name[1], type |-> annotation] >>
        ELSE << >>

RECURSIVE class_attributes_of(_)
class_attributes_of(body) ==
    IF Len(body) = 0 THEN << >>
    ELSE (IF Head(body).kind \in {"Assign", "AnnAssign"}
          THEN attribute_of(Head(body)) ELSE << >>)
         \o class_attributes_of(Tail(body))

function_record(n) ==
    LET sig == get_arguments_and_hints(n) IN
    [name |-> n.name, args |-> sig[1], return_type |-> sig[2],
     decorators |-> get_decorators(n)]

IsFunctionDef(n) == n.kind = "FunctionDef"

IsClassDef(n) == n.kind = "ClassDef"

class_methods_of(body) ==
    LET defs == SelectSeq(body, IsFunctionDef)
    IN  [i \in 1..Len(defs) |-> function_record(defs[i])]

class_record(n) ==
    [name |-> n.name,
     decorators |-> get_decorators(n),
     methods |-> class_methods_of(n.body),
     attributes |-> class_attributes_of(n.body)]

\* the pair (classes, functions) analyze_file returns for a parsed tree
analyze_tree(tree, include_classes, include_functions) ==
    LET cdefs == IF include_classes THEN SelectSeq(tree.body, IsClassDef) ELSE << >>
        fdefs == IF include_functions THEN SelectSeq(tree.body, IsFunctionDef) ELSE << >>
    IN  << [i \in 1..Len(cdefs) |-> class_record(cdefs[i])],
           [i \in 1..Len(fdefs) |-> function_record(fdefs[i])] >>

-----------------------------------------------------------------------------
(* format_output *)

RECURSIVE Flatten(_)
Flatten(ss) == IF Len(ss) = 0 THEN << >> ELSE Head(ss) \o Flatten(Tail(ss))

\* ", ".join(f"{name}: {hint}" if hint else name for name, hint in args)
format_args(args_info) ==
    Join([i \in 1..Len(args_info) |->
            IF Truthy(args_info[i][2])
            THEN args_info[i][1] \o ": " \o args_info[i][2][1]
            ELSE args_info[i][1]], ", ")

format_return(return_type) ==
    IF Truthy(return_type) THEN " -> " \o return_type[1] ELSE ""

\* the decorator block of a method or function: one list element, lines joined
decorators_block(decorators, first, later) ==
    IF Len(decorators) = 0 THEN << >>
    ELSE << Join([i \in 1..Len(decorators) |->
                    (IF i = 1 THEN first ELSE later) \o "@" \o decorators[i]],
                 "\n") >>

method_lines(method, minimalistic) ==
    decorators_block(method.decorators, "    ", "    |")
    \o << (IF minimalistic THEN "    " ELSE "    Method: ")
            \o method.name \o "(" \o format_args(method.args) \o ")"
            \o format_return(method.return_type),
          "" >>

\* variant: the no_attributes flag is not consulted
attribute_lines_unconditional(class_attributes, no_attributes) ==
    IF Len(class_attributes) > 0
    THEN [i \in 1..Len(class_attributes) |->
            "    " \o class_attributes[i].name
              \o (IF Truthy(class_attributes[i].type)
                  THEN ": " \o class_attributes[i].type[1] ELSE "")]
         \o << "" >>
    ELSE << >>

attribute_lines(class_attributes, no_attributes) ==
    IF ~no_attributes /\ Len(class_attributes) > 0
    THEN [i \in 1..Len(class_attributes) |->
            "    " \o class_attributes[i].name
              \o (IF Truthy(class_attributes[i].type)
                  THEN ": " \o class_attributes[i].type[1] ELSE "")]
         \o << "" >>
    ELSE << >>

\* variant: the blank line after the class line is missing
class_lines_no_blank(class_data, minimalistic, no_attributes) ==
    [i \in 1..Len(class_data.decorators) |-> "  @" \o class_data.decorators[i]]
    \o << "  Class: " \o class_data.name >>
    \o attribute_lines(class_data.attributes, no_attributes)
    \o Flatten([i \in 1..Len(class_data.methods) |->
                  method_lines(class_data.methods[i], minimalistic)])

class_lines(class_data, minimalistic, no_attributes) ==
    [i \in 1..Len(class_data.decorators) |-> "  @" \o class_data.decorators[i]]
    \o << "  Class: " \o class_data.name, "" >>
    \o attribute_lines(class_data.attributes, no_attributes)
    \o Flatten([i \in 1..Len(class_data.methods) |->
                  method_lines(class_data.methods[i], minimalistic)])

\* variant: function decorators indented like method decorators
function_lines_method_indent(function, minimalistic) ==
    decorators_block(function.decorators, "    ", "    |")
    \o << (IF minimalistic THEN "    " ELSE "  Function: ")
            \o function.name \o "(" \o format_args(function.args) \o ")"
            \o format_return(function.return_type),
          "" >>

function_lines(function, minimalistic) ==
    decorators_block(function.decorators, "   ", "  |")
    \o << (IF minimalistic THEN "    " ELSE "  Function: ")
            \o function.name \o "(" \o format_args(function.args) \o ")"
            \o format_return(function.return_type),
          "" >>

\* variant: the emptiness of the two lists is not consulted
has_output_any(include_classes, cls, include_functions, fns) ==
    include_classes \/ include_functions

\* (include_classes and classes) or (include_functions and functions)
has_output(include_classes, cls, include_functions, fns) ==
    (include_classes /\ Len(cls) > 0) \/ (include_functions /\ Len(fns) > 0)

format_output(filepath, cls, fns, include_classes, include_functions, minimalistic, no_attributes) ==
    LET show_classes == include_classes /\ Len(cls) > 0
        show_functions == include_functions /\ Len(fns) > 0
        output ==
            IF has_output(include_classes, cls, include_functions, fns)
            THEN << "=== " \o filepath \o ": ===", "" >>
                 \o (IF show_classes
                     THEN Flatten([i \in 1..Len(cls) |->
                                     class_lines(cls[i], minimalistic, no_attributes)])
                     ELSE << >>)
                 \o (IF show_functions
                     THEN (IF minimalistic THEN << "  Functions:\n" >> ELSE << >>)
                          \o Flatten([i \in 1..Len(fns) |->
                                        function_lines(fns[i], minimalistic)])
                          \o << "" >>
                     ELSE << >>)
                 \o << "" >>
            ELSE << >>
    IN  Join(output, "\n")

-----------------------------------------------------------------------------
(* Inputs of the function-level specifications *)

PositionalPool ==
    { Arg("self", None), Arg("a", Name("int")), Arg("b", None),
      Arg("c", Subscript(Name("list"), Name("str"))) }

InjectiveSeqsUpTo(S, n) ==
    { s \in SeqsUpTo(S, n) : \A i, j \in 1..Len(s) : i # j => s[i] # s[j] }

ArgumentsPool ==
    { Arguments(po, ps, va, ko, kw) :
        po \in { << >>, << Arg("p", None) >> },
        ps \in InjectiveSeqsUpTo(PositionalPool, MaxArgs),
        va \in { None, Arg("rest", None), Arg("rest", Name("int")) },
        ko \in { << >>, << Arg("key", Name("str")) >> },
        kw \in { None, Arg("opts", None), Arg("opts", Name("int")) } }

SignaturePool ==
    { FunctionDef("f", a, r, << >>) :
        a \in ArgumentsPool, r \in { None, Attribute(Name("t"), "Any") } }

DecoratorPool ==
    { Name("staticmethod"),
      Attribute(Name("x"), "setter"),
      Subscript(Name("reg"), Constant(0)),
      Call(Name("cache"), << >>, << >>),
      Call(Attribute(Name("app"), "route"), << Name("url") >>, << >>),
      Call(Name("retry"), << Constant(3), Name("exc") >>, << >>),
      Call(Name("dataclass"), << >>, << Keyword("order", Name("asc")) >>),
      Call(Name("wraps"), << Name("fn") >>, << Keyword("n", Constant(1)) >>) }

NoArguments == Arguments(<< >>, << >>, None, << >>, None)

DecoratedPool ==
    { FunctionDef("f", NoArguments, None, ds) :
        ds \in SeqsUpTo(DecoratorPool, MaxDecorators) }

ClassStatementPool ==
    { Assign(<< Name("x") >>, Constant(1)),
      AnnAssign(Name("y"), Name("int")),
      AnnAssign(Name("z"), Subscript(Name("list"), Name("str"))),
      Assign(<< TupleExpr(<< Name("a"), Name("b") >>) >>, Name("pair")),
      Assign(<< Attribute(Name("cfg"), "v") >>, Constant(2)),
      Assign(<< Subscript(Name("tab"), Constant(0)) >>, Constant(3)),
      Assign(<< Name("m"), Name("n") >>, Constant(4)),
      Assign(<< Attribute(Name("cfg"), "w"), Name("k") >>, Constant(5)),
      AnnAssign(Attribute(Name("cfg"), "u"), Name("int")),
      IfStmt(<< Assign(<< Name("hidden") >>, Constant(6)) >>),
      FunctionDef("get", Arguments(<< >>, << Arg("self", None) >>, None, << >>, None),
                  None, << >>),
      Import("os") }

ClassBodyPool ==
    { Module(<< ClassDef("K", << >>, body) >>) :
        body \in SeqsUpTo(ClassStatementPool, MaxBody) }

DriverIdle ==
    /\ args = None
    /\ walk = None
    /\ todo = << >>
    /\ cur = None
    /\ classes = << >>
    /\ functions = << >>
    /\ result = ""
    /\ output_file = "none"
    /\ written = << >>
    /\ stdout = << >>
    /\ analyzed = << >>

-----------------------------------------------------------------------------
(* Signature specification: get_arguments_and_hints and the argument text *)

InitSig ==
    /\ pc = "sig_in"
    /\ node \in SignaturePool
    /\ out = None
    /\ DriverIdle

ApplySignature ==
    /\ pc = "sig_in"
    /\ LET sig == get_arguments_and_hints(node) IN
       out' = [args |-> sig[1], return_type |-> sig[2],
               text |-> "(" \o format_args(sig[1]) \o ")" \o format_return(sig[2])]
    /\ pc' = "sig_out"
    /\ UNCHANGED <<node, driverVars>>

SpecSig == InitSig /\ [][ApplySignature]_vars

(* Decorator specification: get_decorators *)

InitDec ==
    /\ pc = "dec_in"
    /\ node \in DecoratedPool
    /\ out = None
    /\ DriverIdle

ApplyDecorators ==
    /\ pc = "dec_in"
    /\ out' = get_decorators(node)
    /\ pc' = "dec_out"
    /\ UNCHANGED <<node, driverVars>>

SpecDec == InitDec /\ [][ApplyDecorators]_vars

(* Attribute specification: analyze_file on a module of one class *)

InitAttr ==
    /\ pc = "attr_in"
    /\ node \in ClassBodyPool
    /\ out = None
    /\ DriverIdle

ApplyAnalyze ==
    /\ pc = "attr_in"
    /\ out' = analyze_tree(node, TRUE, TRUE)
    /\ pc' = "attr_out"
    /\ UNCHANGED <<node, driverVars>>

SpecAttr == InitAttr /\ [][ApplyAnalyze]_vars

-----------------------------------------------------------------------------
(* C4: the rendered argument list holds every declared parameter once, in   *)
(* declaration order (positional-only, positional, *x, keyword-only, **y),  *)
(* as 'name' or 'name: type', variadic parameters without type text.        *)

ParamText(a) ==
    IF a.annotation # None THEN a.arg \o ": " \o Unparse(a.annotation) ELSE a.arg

DeclaredParams(a) ==
    [i \in 1..Len(a.posonlyargs) |-> ParamText(a.posonlyargs[i])]
    \o [i \in 1..Len(a.args) |-> ParamText(a.args[i])]
    \o (IF a.vararg # None THEN << "*" \o a.vararg.arg >> ELSE << >>)
    \o [i \in 1..Len(a.kwonlyargs) |-> ParamText(a.kwonlyargs[i])]
    \o (IF a.kwarg # None THEN << "**" \o a.kwarg.arg >> ELSE << >>)

\* C4: the rendered signature lists every declared parameter once, in declaration order
C4_ArgsPreserved ==
    pc = "sig_out" =>
        out.text = "(" \o Join(DeclaredParams(node.args), ", ") \o ")"
                     \o (IF node.returns # None
                         THEN " -> " \o Unparse(node.returns) ELSE "")

\* the part of C4 the code does satisfy: declarations whose parameters are
\* all plain positional or variadic
C4_PositionalAndVariadicPreserved ==
    (pc = "sig_out" /\ node.args.posonlyargs = << >> /\ node.args.kwonlyargs = << >>)
        => out.text = "(" \o Join(DeclaredParams(node.args), ", ") \o ")"
                        \o (IF node.returns # None
                            THEN " -> " \o Unparse(node.returns) ELSE "")

-----------------------------------------------------------------------------
(* C5: each decorator renders by its shape, in source order: a name as the  *)
(* name, a call as callee(arg, ...) whenever it has at least one argument,  *)
(* positional or keyword, and as the callee alone when it has none, any     *)
(* other expression as its unparsed text.                                   *)

CallArgTexts(d) ==
    [j \in 1..Len(d.args) |-> Unparse(d.args[j])]
    \o [j \in 1..Len(d.keywords) |->
          d.keywords[j].arg \o "=" \o Unparse(d.keywords[j].value)]

DecoratorText(d) ==
    IF d.kind = "Name" THEN d.id
    ELSE IF d.kind = "Call" THEN
        (IF Len(d.args) + Len(d.keywords) >= 1
         THEN Unparse(d.func) \o "(" \o Join(CallArgTexts(d), ", ") \o ")"
         ELSE Unparse(d.func))
    ELSE Unparse(d)

\* C5: every decorator renders by its shape, a call with any argument as callee(args)
C5_DecoratorsByShape ==
    pc = "dec_out" =>
        /\ Len(out) = Len(node.decorator_list)
        /\ \A i \in 1..Len(out) : out[i] = DecoratorText(node.decorator_list[i])

\* the part of C5 the code does satisfy: decorators without keyword arguments
C5_PositionalOnlyByShape ==
    pc = "dec_out" =>
        /\ Len(out) = Len(node.decorator_list)
        /\ \A i \in 1..Len(out) :
             LET d == node.decorator_list[i] IN
             (d.kind # "Call" \/ d.keywords = << >>) => out[i] = DecoratorText(d)

-----------------------------------------------------------------------------
(* C9: a class records an attribute exactly for each direct child that is   *)
(* an annotated assignment to a simple name or a simple assignment whose    *)
(* left-hand side is a simple name, in source order, typed from the         *)
(* annotation; other left-hand sides and nested assignments record nothing. *)

\* as stated: the left-hand side is one single simple name
IsSingleNameAssignment(st) ==
    \/ st.kind = "AnnAssign" /\ st.target.kind = "Name"
    \/ st.kind = "Assign" /\ Len(st.targets) = 1 /\ st.targets[1].kind = "Name"

\* as the code has it: the first target is a simple name
IsFirstNameAssignment(st) ==
    \/ st.kind = "AnnAssign" /\ st.target.kind = "Name"
    \/ st.kind = "Assign" /\ st.targets[1].kind = "Name"

AttributeRecord(st) ==
    IF st.kind = "AnnAssign"
    THEN [name |-> st.target.id, type |-> Some(Unparse(st.annotation))]
    ELSE [name |-> st.targets[1].id, type |-> NoText]

ClassBodyOf(tree) == tree.body[1].body

\* C9 as stated: attributes are exactly the assignments to one single simple name
C9_AttributesSingleName ==
    pc = "attr_out" =>
        LET recorded == SelectSeq(ClassBodyOf(node), IsSingleNameAssignment) IN
        /\ Len(out[1]) = 1
        /\ out[1][1].attributes = [i \in 1..Len(recorded) |-> AttributeRecord(recorded[i])]

\* C9 amended: attributes are exactly the assignments whose first target is a simple name
C9_AttributesFirstTargetName ==
    pc = "attr_out" =>
        LET recorded == SelectSeq(ClassBodyOf(node), IsFirstNameAssignment) IN
        /\ Len(out[1]) = 1
        /\ out[1][1].attributes = [i \in 1..Len(recorded) |-> AttributeRecord(recorded[i])]

C9_Witness ==
    /\ pc = "attr_out"
    /\ Len(ClassBodyOf(node)) = 2
    /\ ClassBodyOf(node)[1].kind = "Assign"
    /\ Len(ClassBodyOf(node)[1].targets) = 2
    /\ ClassBodyOf(node)[1].targets[1].kind = "Name"
    /\ ClassBodyOf(node)[2].kind = "AnnAssign"
    /\ ClassBodyOf(node)[2].target.kind = "Attribute"
    /\ out[1][1].attributes = << [name |-> "m", type |-> NoText] >>

-----------------------------------------------------------------------------
(* Declarations used as file contents *)

SelfOnly == Arguments(<< >>, << Arg("self", None) >>, None, << >>, None)

ClassPoint ==
    ClassDef("Point", << >>,
        << AnnAssign(Name("x"), Name("int")),
           AnnAssign(Name("y"), Name("int")),
           FunctionDef("dist", SelfOnly, Name("float"), << >>) >>)

ClassDecorated ==
    ClassDef("Repo",
        << Name("final"), Call(Name("register"), << Constant(1) >>, << >>) >>,
        << Assign(<< Name("count") >>, Constant(0)),
           FunctionDef("load",
               Arguments(<< >>, << Arg("self", None), Arg("key", Name("str")) >>,
                         Arg("rest", None), << >>, None),
               None,
               << Name("classmethod"), Attribute(Name("log"), "traced") >>),
           FunctionDef("size", SelfOnly, Name("int"), << Name("property") >>) >>)

ClassBare == ClassDef("Empty", << >>, << Import("os") >>)

FunctionAdd ==
    FunctionDef("add",
        Arguments(<< >>, << Arg("a", None), Arg("b", None) >>, None, << >>, None),
        None, << Name("staticmethod") >>)

FunctionMain == FunctionDef("main", NoArguments, Name("int"), << >>)

FunctionRun ==
    FunctionDef("run",
        Arguments(<< >>, << Arg("x", Name("int")) >>, None, << >>, Arg("opts", None)),
        Name("str"),
        << Call(Name("retry"), << Constant(3) >>, << >>), Name("timed") >>)

TopLevelPool ==
    { ClassPoint, ClassDecorated, ClassBare,
      FunctionAdd, FunctionMain, FunctionRun, Import("sys") }

Booleans == { TRUE, FALSE }

-----------------------------------------------------------------------------
(* run: exclusion patterns, traversal, the loop over the files *)

DEFAULT_EXCLUDES ==
    { ".git", ".venv*", ".venv_test", "__pycache__", "*.egg-info", "build", "dist" }

RECURSIVE fnmatch(_, _)
\* fnmatch.fnmatch(name, pat) for patterns of literal characters and '*'
fnmatch(name, pat) ==
    IF pat = "" THEN name = ""
    ELSE IF SubSeq(pat, 1, 1) = "*"
    THEN \/ fnmatch(name, SubSeq(pat, 2, Len(pat)))
         \/ name # "" /\ fnmatch(SubSeq(name, 2, Len(name)), pat)
    ELSE /\ name # ""
         /\ SubSeq(name, 1, 1) = SubSeq(pat, 1, 1)
         /\ fnmatch(SubSeq(name, 2, Len(name)), SubSeq(pat, 2, Len(pat)))

exclude_patterns(a) ==
    IF Truthy(a.exclude)
    THEN DEFAULT_EXCLUDES \cup Range(Split(a.exclude[1], "|"))
    ELSE DEFAULT_EXCLUDES

Excluded(name, patterns) == \E p \in patterns : fnmatch(name, p)

RECURSIVE os_walk(_, _, _)
\* the files the two nested loops of run reach, in order: the files of a
\* directory first, then its directories that are not excluded
os_walk(root, dir, patterns) ==
    LET Kept(f) == EndsWith(f.name, ".py") /\ ~Excluded(f.name, patterns)
        Entered(d) == ~Excluded(d.name, patterns)
        files == SelectSeq(dir.files, Kept)
        dirs == SelectSeq(dir.dirs, Entered)
    IN  [i \in 1..Len(files) |->
            [filepath |-> root \o "/" \o files[i].name, content |-> files[i].content]]
        \o Flatten([i \in 1..Len(dirs) |->
                      os_walk(root \o "/" \o dirs[i].name, dirs[i], patterns)])

include_classes_of(a) == ~a.functions_only

include_functions_of(a) == ~a.classes_only

\* variant: the conflict test reads the wrong flag
conflict_wrong_flag(a) == a.functions_only /\ a.no_attributes

\* args.functions_only and args.classes_only
conflict(a) == a.functions_only /\ a.classes_only

ConflictMessage == "You can't use both --functions-only and --classes-only."

IOFailure == [kind |-> "IOFailure"]

ParseFailure == [kind |-> "ParseFailure"]

Refuse ==
    /\ pc = "start"
    /\ conflict(args)
    /\ stdout' = Append(stdout, ConflictMessage \o "\n")
    /\ pc' = "returned"
    /\ UNCHANGED <<args, walk, todo, cur, classes, functions, result,
                   output_file, written, analyzed, node, out>>

OpenOutput ==
    /\ pc = "start"
    /\ ~conflict(args)
    /\ output_file' = IF Truthy(args.output) THEN "open" ELSE "none"
    /\ todo' = os_walk(args.directory, walk, exclude_patterns(args))
    /\ pc' = "walk"
    /\ UNCHANGED <<args, walk, cur, classes, functions, result,
                   written, stdout, analyzed, node, out>>

\* open(args.output, "w") raises
OpenOutputRaises ==
    /\ pc = "start"
    /\ ~conflict(args)
    /\ Truthy(args.output)
    /\ pc' = "open_raised"
    /\ UNCHANGED <<driverVars, node, out>>

Analyze ==
    /\ pc = "walk"
    /\ todo # << >>
    /\ Head(todo).content.kind = "Module"
    /\ cur' = Head(todo)
    /\ todo' = Tail(todo)
    /\ analyzed' = Append(analyzed, Head(todo).filepath)
    /\ LET model == analyze_tree(Head(todo).content,
                                 include_classes_of(args), include_functions_of(args))
       IN  /\ classes' = model[1]
           /\ functions' = model[2]
    /\ pc' = "format"
    /\ UNCHANGED <<args, walk, result, output_file, written, stdout, node, out>>

\* open, read or ast.parse raises inside analyze_file; run has no handler
AnalyzeRaises ==
    /\ pc = "walk"
    /\ todo # << >>
    /\ Head(todo).content.kind \in {"IOFailure", "ParseFailure"}
    /\ cur' = Head(todo)
    /\ todo' = Tail(todo)
    /\ analyzed' = Append(analyzed, Head(todo).filepath)
    /\ pc' = "raised"
    /\ UNCHANGED <<args, walk, classes, functions, result,
                   output_file, written, stdout, node, out>>

Format ==
    /\ pc = "format"
    /\ result' = format_output(cur.filepath, classes, functions,
                               include_classes_of(args), include_functions_of(args),
                               args.minimalistic, args.no_attributes)
    /\ pc' = "emit"
    /\ UNCHANGED <<args, walk, todo, cur, classes, functions,
                   output_file, written, stdout, analyzed, node, out>>

EmitWrite ==
    /\ pc = "emit"
    /\ StripNonEmpty(result)
    /\ output_file = "open"
    /\ written' = Append(written, result)
    /\ pc' = "walk"
    /\ UNCHANGED <<args, walk, todo, cur, classes, functions, result,
                   output_file, stdout, analyzed, node, out>>

EmitPrint ==
    /\ pc = "emit"
    /\ StripNonEmpty(result)
    /\ output_file # "open"
    /\ stdout' = Append(stdout, result \o "\n")
    /\ pc' = "walk"
    /\ UNCHANGED <<args, walk, todo, cur, classes, functions, result,
                   output_file, written, analyzed, node, out>>

EmitNothing ==
    /\ pc = "emit"
    /\ ~StripNonEmpty(result)
    /\ pc' = "walk"
    /\ UNCHANGED <<driverVars, node, out>>

Close ==
    /\ pc = "walk"
    /\ todo = << >>
    /\ output_file' = IF output_file = "open" THEN "closed" ELSE output_file
    /\ pc' = "returned"
    /\ UNCHANGED <<args, walk, todo, cur, classes, functions, result,
                   written, stdout, analyzed, node, out>>

FileNames == << "a.py", "notes.txt", "b.py", "c.py", "d.py" >>

ContentPool ==
    { IOFailure, ParseFailure,
      Module(<< Import("sys") >>),
      Module(<< ClassPoint >>),
      Module(<< FunctionAdd >>),
      Module(<< ClassBare, FunctionMain >>) }

\* the listings of the top directory: the first k names, a content for each
RootListings ==
    UNION { { [i \in 1..k |->
                 [name |-> FileNames[i],
                  content |-> IF EndsWith(FileNames[i], ".py") THEN c[i] ELSE ParseFailure]]
              : c \in [1..k -> ContentPool] }
            : k \in 0..MaxFiles }

Directories ==
    << [name |-> "build", dirs |-> << >>,
        files |-> << [name |-> "gen.py", content |-> Module(<< FunctionMain >>)] >>],
       [name |-> "pkg", dirs |-> << >>,
        files |-> << [name |-> "m.py", content |-> Module(<< FunctionRun >>)],
                     [name |-> "README", content |-> ParseFailure] >>] >>

Init ==
    /\ pc = "start"
    /\ args \in [directory : { "proj" },
                 functions_only : Booleans, classes_only : Booleans,
                 no_attributes : Booleans, minimalistic : Booleans,
                 output : { NoText, Some("map.txt") },
                 exclude : { NoText, Some("b.py|pk*") }]
    /\ walk \in { [name |-> "proj", dirs |-> Directories, files |-> fs] :
                    fs \in RootListings }
    /\ todo = << >>
    /\ cur = None
    /\ classes = << >>
    /\ functions = << >>
    /\ result = ""
    /\ output_file = "none"
    /\ written = << >>
    /\ stdout = << >>
    /\ analyzed = << >>
    /\ node = None
    /\ out = None

Next ==
    \/ Refuse
    \/ OpenOutput
    \/ OpenOutputRaises
    \/ Analyze
    \/ AnalyzeRaises
    \/ Format
    \/ EmitWrite
    \/ EmitPrint
    \/ EmitNothing
    \/ Close

Spec == Init /\ [][Next]_vars

-----------------------------------------------------------------------------
(* Rendering specification: format_output on the model of one file *)

Configurations ==
    [include_classes : Booleans, include_functions : Booleans,
     minimalistic : Booleans, no_attributes : Booleans]

InitFmt ==
    /\ pc = "fmt_in"
    /\ node \in [tree : { Module(b) : b \in SeqsUpTo(TopLevelPool, MaxTop) },
                 filepath : { "path" },
                 config : Configurations]
    /\ out = None
    /\ DriverIdle

Extract ==
    /\ pc = "fmt_in"
    /\ LET model == analyze_tree(node.tree, TRUE, TRUE) IN
       out' = [classes |-> model[1], functions |-> model[2], text |-> ""]
    /\ pc' = "fmt_model"
    /\ UNCHANGED <<node, driverVars>>

Render ==
    /\ pc = "fmt_model"
    /\ out' = [out EXCEPT !.text =
                 format_output(node.filepath, out.classes, out.functions,
                               node.config.include_classes,
                               node.config.include_functions,
                               node.config.minimalistic,
                               node.config.no_attributes)]
    /\ pc' = "fmt_out"
    /\ UNCHANGED <<node, driverVars>>

SpecFmt == InitFmt /\ [][Extract \/ Render]_vars

\* the lines of a text
Lines(text) == Split(text, "\n")

HeaderLines(filepath) == << "=== " \o filepath \o ": ===", "" >>

ArgsText(ps) ==
    Join([i \in 1..Len(ps) |->
            IF ps[i][2] = NoText THEN ps[i][1] ELSE ps[i][1] \o ": " \o ps[i][2][1]],
         ", ")

ReturnText(r) == IF r = NoText THEN "" ELSE " -> " \o r[1]

AttributeBlock(c) ==
    IF Len(c.attributes) = 0 THEN << >>
    ELSE [i \in 1..Len(c.attributes) |->
            IF c.attributes[i].type = NoText
            THEN "    " \o c.attributes[i].name
            ELSE "    " \o c.attributes[i].name \o ": " \o c.attributes[i].type[1]]
         \o << "" >>

DecoratorBlock(ds, first, later) ==
    [i \in 1..Len(ds) |-> (IF i = 1 THEN first ELSE later) \o ds[i]]

MethodBlock(m) ==
    DecoratorBlock(m.decorators, "    @", "    |@")
    \o << "    Method: " \o m.name \o "(" \o ArgsText(m.args) \o ")"
            \o ReturnText(m.return_type),
          "" >>

ClassBlock(c) ==
    [i \in 1..Len(c.decorators) |-> "  @" \o c.decorators[i]]
    \o << "  Class: " \o c.name, "" >>
    \o AttributeBlock(c)
    \o Flatten([i \in 1..Len(c.methods) |-> MethodBlock(c.methods[i])])

FunctionBlock(fns, minimalistic) ==
    (IF minimalistic THEN << "  Functions:", "" >> ELSE << >>)
    \o Flatten([i \in 1..Len(fns) |->
          DecoratorBlock(fns[i].decorators, "   @", "  |@")
          \o << (IF minimalistic THEN "    " ELSE "  Function: ")
                  \o fns[i].name \o "(" \o ArgsText(fns[i].args) \o ")"
                  \o ReturnText(fns[i].return_type),
                "" >>])
    \o << "" >>

EmptiedAttributes(cls) ==
    [i \in 1..Len(cls) |-> [cls[i] EXCEPT !.attributes = << >>]]

-----------------------------------------------------------------------------
(* C6: with no_attributes set the text has no attribute line and no         *)
(* attribute-block blank line: it is the text of the same model with every  *)
(* attribute list emptied. With no_attributes unset a shown class with      *)
(* attributes has, right after its class line and blank line, one line per  *)
(* attribute in order and then exactly one blank line.                      *)

C6_AttributeSuppression ==
    pc = "fmt_out" =>
        LET cfg == node.config
            shown == cfg.include_classes /\ Len(out.classes) > 0
        IN
        /\ cfg.no_attributes =>
             /\ \A na \in Booleans :
                  out.text = format_output(node.filepath,
                                 EmptiedAttributes(out.classes), out.functions,
                                 cfg.include_classes, cfg.include_functions,
                                 cfg.minimalistic, na)
             /\ \A i \in 1..Len(out.classes) :
                  \A j \in 1..Len(out.classes[i].attributes) :
                     AttributeBlock(out.classes[i])[j] \notin Range(Lines(out.text))
        /\ (~cfg.no_attributes /\ shown) =>
             \A i \in 1..Len(out.classes) :
                LET c == out.classes[i]
                    block == Join(<< "  Class: " \o c.name, "" >> \o AttributeBlock(c),
                                  "\n") \o "\n"
                IN  Len(c.attributes) > 0 =>
                      /\ Contains(out.text, block)
                      /\ ~Contains(out.text, block \o "\n")

C6_Witness ==
    /\ pc = "fmt_out"
    /\ node.config.no_attributes
    /\ node.config.include_classes
    /\ Len(out.classes) = 2
    /\ Len(out.classes[1].attributes) = 2
    /\ Contains(out.text, "  Class: Point\n\n    Method: dist(self) -> float\n")

-----------------------------------------------------------------------------
(* C7: classes shown, no functions, full mode, attributes shown: the lines  *)
(* of the text are exactly the header line, a blank line, the block of each *)
(* class in order, and one trailing blank line; for class Point it is the   *)
(* block of the scenario.                                                   *)

PointScenario ==
    "=== path: ===\n\n  Class: Point\n\n    x: int\n    y: int\n\n"
      \o "    Method: dist(self) -> float\n\n"

\* C7: the lines of a classes-only text in full mode are header, class blocks, blank
C7_ClassBlocks ==
    (/\ pc = "fmt_out"
     /\ node.config.include_classes
     /\ Len(out.classes) > 0
     /\ Len(out.functions) = 0
     /\ ~node.config.minimalistic
     /\ ~node.config.no_attributes)
    => /\ Lines(out.text) =
            HeaderLines(node.filepath)
            \o Flatten([i \in 1..Len(out.classes) |-> ClassBlock(out.classes[i])])
            \o << "" >>
       /\ node.tree.body = << ClassPoint >> => out.text = PointScenario

C7_Witness ==
    /\ pc = "fmt_out"
    /\ node.config.include_classes
    /\ ~node.config.minimalistic
    /\ ~node.config.no_attributes
    /\ node.tree.body = << ClassPoint >>
    /\ out.text = PointScenario

C7_WitnessDecorated ==
    /\ pc = "fmt_out"
    /\ node.config.include_classes
    /\ ~node.config.minimalistic
    /\ ~node.config.no_attributes
    /\ node.tree.body = << ClassDecorated, ClassPoint >>
    /\ Contains(out.text, "    @classmethod\n    |@log.traced\n    Method: load(")

-----------------------------------------------------------------------------
(* C10: functions shown: the text ends with the function block and the      *)
(* trailing blank line of the file. The block is, in minimalistic mode      *)
(* only, a '  Functions:' line and a blank line, then per function its      *)
(* decorator lines ('   @' first, '  |@' later), its function line and a    *)
(* blank line, then one more blank line.                                    *)

Suffix(s, n) == SubSeq(s, Len(s) - n + 1, Len(s))

\* C10: the text ends with the function block and the trailing blank line
C10_FunctionBlock ==
    (/\ pc = "fmt_out"
     /\ node.config.include_functions
     /\ Len(out.functions) > 0)
    => LET block == FunctionBlock(out.functions, node.config.minimalistic) \o << "" >>
           lines == Lines(out.text)
           shown == node.config.include_classes /\ Len(out.classes) > 0
       IN  /\ Len(lines) >= Len(block) + 2
           /\ Suffix(lines, Len(block)) = block
           /\ ~shown => lines = HeaderLines(node.filepath) \o block
           /\ Cardinality({ i \in 1..Len(lines) : lines[i] = "  Functions:" })
                = (IF node.config.minimalistic THEN 1 ELSE 0)
           /\ (node.config.minimalistic /\ out.functions[1].name = "add")
                => Contains(out.text, "  Functions:\n\n   @staticmethod\n    add(a, b)\n\n")

C10_Witness ==
    /\ pc = "fmt_out"
    /\ node.config.include_functions
    /\ node.config.minimalistic
    /\ node.tree.body = << FunctionAdd, FunctionRun >>
    /\ Contains(out.text,
         "   @staticmethod\n    add(a, b)\n\n   @retry(3)\n  |@timed\n    run(x: int, **opts) -> str\n\n\n")

-----------------------------------------------------------------------------
(* Claims about run *)

\* the files the traversal yields, in order
Discovered == os_walk(args.directory, walk, exclude_patterns(args))

Failing(f) == f.content.kind \in {"IOFailure", "ParseFailure"}

\* the text of a file that can be read and parsed
TextOf(f) ==
    LET model == analyze_tree(f.content, include_classes_of(args),
                              include_functions_of(args))
    IN  format_output(f.filepath, model[1], model[2],
                      include_classes_of(args), include_functions_of(args),
                      args.minimalistic, args.no_attributes)

\* what reached the sink: the file when --output is given, else standard output
Sink ==
    IF Truthy(args.output) THEN written
    ELSE [i \in 1..Len(stdout) |-> SubSeq(stdout[i], 1, Len(stdout[i]) - 1)]

Terminated == pc \in {"returned", "raised"}

(* C1: a file that cannot be read or parsed does not abort the run: when    *)
(* the run has ended, every readable file after it in traversal order has   *)
(* been analyzed and its non-empty text has reached the sink.               *)
C1_FailureDoesNotAbort ==
    (Terminated /\ ~conflict(args)) =>
        \A i, j \in 1..Len(Discovered) :
            (i < j /\ Failing(Discovered[i]) /\ ~Failing(Discovered[j])) =>
                /\ Discovered[j].filepath \in Range(analyzed)
                /\ TextOf(Discovered[j]) # "" =>
                     TextOf(Discovered[j]) \in Range(Sink)

(* C2: with --functions-only and --classes-only both set the run reports    *)
(* the conflict and returns: the sink is never opened, nothing is           *)
(* traversed, no file is analyzed and no report text is emitted.            *)
C2_ConflictRefused ==
    (args.functions_only /\ args.classes_only) =>
        /\ pc \in {"start", "returned"}
        /\ output_file = "none"
        /\ written = << >>
        /\ todo = << >>
        /\ cur = None
        /\ analyzed = << >>
        /\ result = ""
        /\ stdout = IF pc = "returned" THEN << ConflictMessage \o "\n" >> ELSE << >>

C2_Witness ==
    /\ args.functions_only
    /\ args.classes_only
    /\ Truthy(args.output)
    /\ Len(walk.files) > 0
    /\ pc = "returned"
    /\ stdout = << ConflictMessage \o "\n" >>

(* C3: the rendered text is empty exactly when neither (include_classes and *)
(* classes non-empty) nor (include_functions and functions non-empty); then *)
(* the driver passes nothing to the sink; otherwise the text begins with    *)
(* the header line '=== <path>: ===' and a blank line.                      *)
ShownInFile ==
    \/ include_classes_of(args) /\ classes # << >>
    \/ include_functions_of(args) /\ functions # << >>

C3_Rendered ==
    pc = "emit" =>
        /\ result = "" <=> ~ShownInFile
        /\ ShownInFile => StartsWith(result, "=== " \o cur.filepath \o ": ===\n\n")

C3_EmptyTextNotEmitted ==
    (pc = "emit" /\ result = "") => (written' = written /\ stdout' = stdout)

\* C3: empty text exactly when nothing is shown, and an empty text is never emitted
C3_EmptyIffNothingShown ==
    [] C3_Rendered /\ [][C3_EmptyTextNotEmitted]_vars

C3_Witness ==
    /\ pc = "walk"
    /\ cur # None
    /\ cur.content = Module(<< FunctionAdd >>)
    /\ args.classes_only
    /\ analyzed = << cur.filepath >>
    /\ result = ""
    /\ written = << >>
    /\ stdout = << >>

C3_WitnessHeader ==
    /\ pc = "emit"
    /\ cur.content = Module(<< FunctionAdd >>)
    /\ StartsWith(result, "=== proj/a.py: ===\n\n   @staticmethod\n  Function: add(a, b)")

\* the same equivalence for format_output on every file model and configuration
C3_FormatEmptyIff ==
    pc = "fmt_out" =>
        LET shown == \/ node.config.include_classes /\ Len(out.classes) > 0
                     \/ node.config.include_functions /\ Len(out.functions) > 0
        IN  /\ out.text = "" <=> ~shown
            /\ shown => StartsWith(out.text, "=== " \o node.filepath \o ": ===\n\n")
            /\ StripNonEmpty(out.text) <=> shown

(* C8: files are processed one at a time in traversal order: each           *)
(* discovered file is analyzed and rendered exactly once, its text is in    *)
(* the sink before the next file is analyzed, the sink holds the non-empty  *)
(* texts in traversal order, and when the run has ended every discovered    *)
(* file has been processed.                                                 *)
NonEmptyTexts(fs) ==
    LET Shown(f) == ~Failing(f) /\ TextOf(f) # ""
        shown == SelectSeq(fs, Shown)
    IN  [i \in 1..Len(shown) |-> TextOf(shown[i])]

C8_InOrder ==
    (pc \in {"walk", "format", "emit", "returned", "raised"} /\ ~conflict(args)) =>
        LET n == Len(analyzed)
            delivered == IF pc \in {"walk", "returned"} THEN n ELSE n - 1
        IN  /\ n <= Len(Discovered)
            /\ analyzed = [i \in 1..n |-> Discovered[i].filepath]
            /\ Sink = NonEmptyTexts(SubSeq(Discovered, 1, delivered))

\* C8: files are processed in order, one at a time, and all of them by the end
C8_OneAtATimeInOrder ==
    /\ C8_InOrder
    /\ Terminated /\ ~conflict(args) =>
         /\ Len(analyzed) = Len(Discovered)
         /\ Sink = NonEmptyTexts(Discovered)

====
